---- MODULE Spec2Model ----
(***************************************************************************)
(* GuardedSequenceContainer<ContainerType, ValidElementFunction>           *)
(* (include/containers/guarded_sequence_container.hpp).                    *)
(*                                                                         *)
(* The storage is modelled as a contiguous, index-accessible sequence      *)
(* (std::vector): a position is the index of a slot, 1-based, and the      *)
(* position Len + 1 is end().  The buffer of the storage is identified by  *)
(* its capacity, which only ever grows, so a position captured before a    *)
(* reallocation refers to a buffer that no longer exists.                  *)
(***************************************************************************)
EXTENDS Integers, Sequences, FiniteSets, TLC

\* Bounds of the model.
MaxLen   == 3      \* physical slots the storage may hold
MaxVal   == 2      \* element values are 0..MaxVal
MaxLocks == 2      \* concurrent holders of the reference counted lock
MaxDepth == 2      \* self-calls of insert() that are followed
MaxObjects == 2    \* objects that take extensions
MaxExtensions == 3 \* object extensions
MaxNames == 2      \* distinct extension names
MaxClasses == 4    \* metaclasses of a class graph
MaxStops == 2      \* calls of Job::stop that are followed
MaxCycles == 2     \* times the job is queued
MaxKeys == 3       \* keys of the TTL cache
MaxTime == 2       \* readings of the steady clock are 0..MaxTime

\* value_type(): the default value an erased or cleared slot is reset to.
DefaultValue == 0
\* std::nullopt / "return {}": the empty result of insert() and erase().
nullopt == 0

Elements == 0..MaxVal

\* ValidElementFunction: the default (reset) value is the invalid one.
valid_element(item) == item # DefaultValue

VARIABLES
    m_container,   \* the live elements of the storage, in order
    capacity,      \* capacity of the storage buffer (identifies the buffer)
    residue,       \* contents of destroyed slots right after the live ones,
                   \* as far as the locked view still reaches them
    m_lockedView,  \* std::optional<View<Iterator>>
    lockCount,     \* lock multiplicity of ReferenceCountLockable
    depth,         \* nesting of insert() calling itself (0: no call active)
    last,          \* the last call made and what it returned
    tomb,          \* history, kept when scn.phase = "track": the slot the
                   \* last in-view erase reset and the valid element it held
    scn,           \* history of the lock / erase / unlock scenario
    m_extensions,  \* Object::m_extensions of every object: name -> extension
    m_object,      \* the object every ObjectExtension is attached to
    invoked,       \* the last call made on an Object and what it returned
    aborted,       \* abortIfFail has ended the process
    baseClasses,   \* the direct base classes of every metaclass
    derived,       \* the last isDerivedFrom query and its result
    job,           \* a Job: its status, where its worker and the pool are,
                   \* and what the hooks of the job saw
    m_cache,       \* TtlCache::m_cache: key -> CacheNode (or no node)
    m_timeBuffer,  \* TtlCache::m_timeBuffer: the <<time point, key>> pairs
    m_putGuard,    \* TtlCache::m_putGuard
    cacheCapacity, \* TtlCache::capacity
    ttl,           \* TtlCache::ttl
    now,           \* the reading of TtlClock
    answer         \* the last call made on the cache and what it returned

vars == <<m_container, capacity, residue, m_lockedView, lockCount, depth, last,
          tomb, scn, m_extensions, m_object, invoked, aborted,
          baseClasses, derived, job, m_cache, m_timeBuffer, m_putGuard,
          cacheCapacity, ttl, now, answer>>

\* The state of the container and the state of the other components.
containerVars == <<m_container, capacity, residue, m_lockedView, lockCount,
                   depth, last, tomb, scn>>
cacheVars == <<m_cache, m_timeBuffer, m_putGuard, cacheCapacity, ttl, now,
               answer>>
others == <<m_extensions, m_object, invoked, aborted, baseClasses, derived,
            job, cacheVars>>
objectVars == <<m_extensions, m_object, invoked, aborted>>
metaVars == <<baseClasses, derived>>

Max(a, b) == IF a >= b THEN a ELSE b

\* An optional view that holds nothing.
NoView == [engaged |-> FALSE, m_viewBegin |-> 0, m_viewEnd |-> 0, buf |-> 0]

\* The memory the positions of the current buffer can reach: the live slots
\* followed by destroyed slots that still hold what was left in them.
Buffer == m_container \o residue

\* ReferenceCountLockable::isLocked()
isLocked == lockCount > 0

\* The view's positions point into a buffer that has been reallocated.
Stale == m_lockedView.engaged /\ m_lockedView.buf # capacity

(***************************************************************************)
(* IteratorWrap: a base position, the end sentinel and the predicate.      *)
(***************************************************************************)
\* The iterators read the memory their positions point into, which is the
\* first argument of the operators below.
RECURSIVE SkipInvalid(_, _, _)
SkipInvalid(memory, pos, end) ==
    IF pos >= end THEN end
    ELSE IF valid_element(memory[pos]) THEN pos
    ELSE SkipInvalid(memory, pos + 1, end)

\* IteratorWrap::operator++: step, then skip the slots failing the predicate.
Increment(memory, pos, end) == SkipInvalid(memory, pos + 1, end)

\* The positions a traversal from begin to end stops at, in order.
RECURSIVE Traverse(_, _, _)
Traverse(memory, pos, end) ==
    IF pos >= end THEN <<>>
    ELSE <<pos>> \o Traverse(memory, Increment(memory, pos, end), end)

(***************************************************************************)
(* View<IteratorType>                                                      *)
(***************************************************************************)
\* A view whose end is one slot short of the end of the storage.
View_ShortEnd ==
    [engaged |-> TRUE, m_viewBegin |-> 1,
     m_viewEnd |-> Max(1, Len(m_container)), buf |-> capacity]

\* View::View: begin/end of the storage at this instant.
View == [engaged |-> TRUE, m_viewBegin |-> 1,
         m_viewEnd |-> Len(m_container) + 1, buf |-> capacity]

\* What a slot of released memory can hold: any element, or what the
\* allocator wrote there, which is no element the program stored.
Released == Elements \cup {MaxVal + 1}

\* The memory the stored begin and end of the view point into.  It is the
\* buffer of the storage while the view is of that buffer; after the buffer
\* was reallocated the iterators read released memory (use after free),
\* which holds anything, or the buffer again when the storage got the old
\* address back.
ViewMemory ==
    IF Stale
    THEN {Buffer} \cup [1..(m_lockedView.m_viewEnd - 1) -> Released]
    ELSE {Buffer}

\* The positions the walk from the view's begin to its end stops at.
ViewPositions(memory) ==
    Traverse(memory, m_lockedView.m_viewBegin, m_lockedView.m_viewEnd)

\* inView with the walk stopping one stop short of the view's end.
inView_ExcludesLast(memory, position) ==
    \E k \in 1..(Len(ViewPositions(memory)) - 1) :
        ViewPositions(memory)[k] = position

\* inView with the end position of the view taken as part of the view.
inView_IncludesEnd(memory, position) ==
    \/ \E k \in 1..Len(ViewPositions(memory)) :
           ViewPositions(memory)[k] = position
    \/ position = m_lockedView.m_viewEnd

\* View::inView: walk the view and compare each stop with the position.
inView(memory, position) ==
    \E k \in 1..Len(ViewPositions(memory)) :
        ViewPositions(memory)[k] = position

\* What inView can answer for a position of the storage.  The stops of a
\* walk through released memory are positions of another buffer and differ
\* from every position of the storage, whatever the memory holds; when the
\* storage got the old address back the walk is the one through the buffer.
inViewOutcomes(position) ==
    IF Stale THEN {FALSE, inView(Buffer, position)}
    ELSE {inView(Buffer, position)}

\* View::size: std::distance(m_viewBegin, m_viewEnd).
size(memory) == Len(ViewPositions(memory))

\* View::isEmpty
isEmpty(memory) == size(memory) = 0

\* View::find: std::find(m_viewBegin, m_viewEnd, item).
find(memory, item) ==
    LET hits == {k \in 1..Len(ViewPositions(memory)) :
                    memory[ViewPositions(memory)[k]] = item}
    IN IF hits = {} THEN m_lockedView.m_viewEnd
       ELSE ViewPositions(memory)[CHOOSE k \in hits : \A j \in hits : k <= j]

(***************************************************************************)
(* The storage (ContainerType)                                             *)
(***************************************************************************)
\* Capacity after an insertion into a sequence of n slots held in a buffer
\* of capacity c: a full buffer is reallocated to twice its size.
GrowTo(n, c) == IF n < c THEN c ELSE Max(1, 2 * c)

InsertAt(s, p, item) == SubSeq(s, 1, p - 1) \o <<item>> \o SubSeq(s, p, Len(s))

RemoveAt(s, p) == SubSeq(s, 1, p - 1) \o SubSeq(s, p + 1, Len(s))

\* The destroyed slots the view still reaches once the storage holds n live
\* slots in a buffer of capacity c, taken from the front of r.
Reach(r, n) ==
    IF m_lockedView.engaged /\ n < m_lockedView.m_viewEnd - 1
    THEN SubSeq(r, 1, m_lockedView.m_viewEnd - 1 - n)
    ELSE <<>>

\* What the slot freed by a physical erase may hold afterwards: the last
\* element as it was, or the state it was moved from.
Leftover == {m_container[Len(m_container)], DefaultValue}

(***************************************************************************)
(* Lock lifecycle                                                          *)
(***************************************************************************)
\* getLockedView computing the range from the storage at the time of the call.
getLockedView_Recomputed == IF m_lockedView.engaged THEN View ELSE NoView

\* GuardedSequenceContainer::getLockedView: a copy of the stored optional.
getLockedView == m_lockedView

\* acquireResources capturing a view on every call.
acquireResources_Recapture == View

\* acquireResources that never stores a view.
acquireResources_NoCapture == m_lockedView

\* GuardedSequenceContainer::acquireResources: the view is captured only
\* when none is stored.
acquireResources == IF ~m_lockedView.engaged THEN View ELSE m_lockedView

\* releaseResources sweeping the range of the view instead of the storage.
releaseResources_ViewOnly ==
    LET n == IF m_lockedView.m_viewEnd - 1 < Len(m_container)
             THEN m_lockedView.m_viewEnd - 1 ELSE Len(m_container)
    IN SelectSeq(SubSeq(m_container, 1, n), valid_element)
          \o SubSeq(m_container, n + 1, Len(m_container))

\* GuardedSequenceContainer::releaseResources: erase(remove_if(not valid)).
releaseResources == SelectSeq(m_container, valid_element)

\* A call: its name, its arguments, the result it returned and the physical
\* size of the storage when it was made.
Call(op, pos, item, ret) ==
    [op |-> op, pos |-> pos, item |-> item, ret |-> ret,
     before |-> Len(m_container)]

Inserts == {"insert_copy", "insert_move"}
Erases == {"erase", "erase_const"}

NoTomb == [pos |-> 0, old |-> DefaultValue]
NoScenario == [phase |-> "none", S |-> <<>>, E |-> {}]

\* ReferenceCountLockable::lock: the 0 -> 1 transition acquires the resources.
lock ==
    /\ depth = 0
    /\ lockCount < MaxLocks
    /\ lockCount' = lockCount + 1
    /\ m_lockedView' = IF lockCount = 0 THEN acquireResources ELSE m_lockedView
    /\ last' = Call("lock", 0, DefaultValue, nullopt)
    /\ UNCHANGED <<m_container, capacity, residue, depth, tomb>>

\* unlock running the release hook on every call, also while holders remain.
unlock_EveryRelease ==
    /\ depth = 0
    /\ lockCount > 0
    /\ lockCount' = lockCount - 1
    /\ m_container' = releaseResources
    /\ m_lockedView' = NoView
    /\ residue' = <<>>
    /\ tomb' = NoTomb
    /\ last' = Call("unlock", 0, DefaultValue, nullopt)
    /\ UNCHANGED <<capacity, depth>>

\* ReferenceCountLockable::unlock: the 1 -> 0 transition releases them.
unlock ==
    /\ depth = 0
    /\ lockCount > 0
    /\ lockCount' = lockCount - 1
    /\ IF lockCount = 1
       THEN /\ m_container' = releaseResources
            /\ m_lockedView' = NoView
            /\ residue' = <<>>
            /\ tomb' = NoTomb
       ELSE UNCHANGED <<m_container, m_lockedView, residue, tomb>>
    /\ last' = Call("unlock", 0, DefaultValue, nullopt)
    /\ UNCHANGED <<capacity, depth>>

(***************************************************************************)
(* Modifiers                                                               *)
(***************************************************************************)
\* The buffer after for_each over the view reset every slot it stopped at.
ResetView ==
    [i \in 1..Len(Buffer) |->
        IF inView(Buffer, i) THEN DefaultValue ELSE Buffer[i]]

\* What for_each over the view can leave in the buffer: a view into a
\* reallocated buffer writes into released memory, not into the storage,
\* unless the storage got the old address back.
ResetOutcomes == IF Stale THEN {Buffer, ResetView} ELSE {ResetView}

\* clear resetting the slots in place whether or not the container is locked.
clear_ResetAlways ==
    /\ depth = 0
    /\ m_container' = [i \in 1..Len(m_container) |-> DefaultValue]
    /\ residue' = residue
    /\ last' = Call("clear", 0, DefaultValue, nullopt)
    /\ UNCHANGED <<capacity, m_lockedView, lockCount, depth, tomb>>

\* GuardedSequenceContainer::clear
clear ==
    /\ depth = 0
    /\ IF isLocked
       THEN \E buffer \in ResetOutcomes :
               /\ m_container' = SubSeq(buffer, 1, Len(m_container))
               /\ residue' = SubSeq(buffer, Len(m_container) + 1, Len(buffer))
       ELSE /\ m_container' = <<>>
            /\ residue' = <<>>
    /\ last' = Call("clear", 0, DefaultValue, nullopt)
    /\ UNCHANGED <<capacity, m_lockedView, lockCount, depth, tomb>>

\* ContainerType::insert(position, item) on the storage.
StorageInsert(position, item) ==
    /\ Len(m_container) < MaxLen
    /\ m_container' = InsertAt(m_container, position, item)
    /\ capacity' = GrowTo(Len(m_container), capacity)
    /\ residue' = IF capacity' # capacity \/ residue = <<>> THEN <<>>
                  ELSE Reach(Tail(residue), Len(m_container) + 1)

\* return insert(position, item) with no view stored: the overload calls
\* itself with the arguments it was given, a recursion without end and
\* without side effect, which is undefined behaviour. A build either
\* follows the self-call (the call never returns), or drops it and runs the
\* statements of the locked branch on the disengaged optional: what is left
\* in its storage decides whether inView answers true (std::nullopt is
\* returned) or false (the item is inserted).
insertSelfCall(op, position, item) ==
    \/ /\ depth < MaxDepth
       /\ depth' = depth + 1
       /\ last' = Call(op, position, item, nullopt)
       /\ UNCHANGED <<m_container, capacity, residue>>
    \/ /\ depth = 0
       /\ last' = Call(op, position, item, nullopt)
       /\ UNCHANGED <<m_container, capacity, residue, depth>>
    \/ /\ depth = 0
       /\ StorageInsert(position, item)
       /\ last' = Call(op, position, item, position)
       /\ UNCHANGED depth

\* insert that puts the item into the storage before it rejects the call.
insert_RejectLate(op, position, item) ==
    /\ IF m_lockedView.engaged
       THEN /\ depth = 0
            /\ \E hit \in inViewOutcomes(position) :
                  /\ StorageInsert(position, item)
                  /\ last' = Call(op, position, item,
                                  IF hit THEN nullopt ELSE position)
            /\ UNCHANGED depth
       ELSE insertSelfCall(op, position, item)
    /\ UNCHANGED <<m_lockedView, lockCount, tomb>>

\* GuardedSequenceContainer::insert, both overloads (op names the overload).
insert(op, position, item) ==
    /\ IF m_lockedView.engaged
       THEN /\ depth = 0
            /\ \E hit \in inViewOutcomes(position) :
                  IF hit
                  THEN /\ last' = Call(op, position, item, nullopt)
                       /\ UNCHANGED <<m_container, capacity, residue>>
                  ELSE /\ StorageInsert(position, item)
                       /\ last' = Call(op, position, item, position)
            /\ UNCHANGED depth
       ELSE insertSelfCall(op, position, item)
    /\ UNCHANGED <<m_lockedView, lockCount, tomb>>

\* The storage erase removing the last slot whatever the position.
StorageErase_Last(position) ==
    /\ m_container' = RemoveAt(m_container, Len(m_container))
    /\ \E left \in Leftover :
          residue' = Reach(<<left>> \o residue, Len(m_container) - 1)

\* ContainerType::erase(position) on the storage.
StorageErase(position) ==
    /\ m_container' = RemoveAt(m_container, position)
    /\ \E left \in Leftover :
          residue' = Reach(<<left>> \o residue, Len(m_container) - 1)

\* GuardedSequenceContainer::erase, both overloads (op names the overload).
erase(op, position) ==
    /\ depth = 0
    /\ IF m_lockedView.engaged
       THEN \E hit \in inViewOutcomes(position) :
               IF hit
               THEN /\ m_container' = [m_container EXCEPT ![position] = DefaultValue]
                    /\ last' = Call(op, position, DefaultValue, position)
                    /\ tomb' = IF scn.phase = "track"
                                  /\ valid_element(m_container[position])
                               THEN [pos |-> position, old |-> m_container[position]]
                               ELSE tomb
                    /\ UNCHANGED residue
               ELSE /\ StorageErase(position)
                    /\ last' = Call(op, position, DefaultValue, nullopt)
                    /\ UNCHANGED tomb
       ELSE /\ StorageErase(position)
            /\ last' = Call(op, position, DefaultValue, position)
            /\ UNCHANGED tomb
    /\ UNCHANGED <<capacity, m_lockedView, lockCount, depth>>

\* GuardedSequenceContainer::push_back, both overloads.
push_back(item) ==
    /\ depth = 0
    /\ StorageInsert(Len(m_container) + 1, item)
    /\ last' = Call("push_back", 0, item, nullopt)
    /\ UNCHANGED <<m_lockedView, lockCount, depth, tomb>>

(***************************************************************************)
(* Object and its extensions (src/object.cpp)                              *)
(***************************************************************************)
Objects == 1..MaxObjects
Extensions == 1..MaxExtensions
Names == 1..MaxNames

\* ObjectExtensionPtr(): no extension; also the empty result of getObject().
nullptr == 0

\* ObjectExtension::getName: every extension has one name, and two
\* extensions may have the same name.
getName(extension) == ((extension - 1) % MaxNames) + 1

\* ObjectExtension::getObject: the object the extension is attached to.
getObject(extension) == m_object[extension]

\* ObjectExtension::attachToObject
attachToObject(extension, object) == [m_object EXCEPT ![extension] = object]

\* ObjectExtension::detachFromObject
detachFromObject(extension) == [m_object EXCEPT ![extension] = nullptr]

\* A call on an object: its arguments, what it returned ("void" for a
\* function that returns no value, "aborted" when the call ended the
\* process) and, for findExtension, the extension found.
Invocation(op, object, extension, name, ret, found) ==
    [op |-> op, object |-> object, extension |-> extension, name |-> name,
     ret |-> ret, found |-> found]

NoInvocation == Invocation("none", 0, nullptr, 0, "void", nullptr)

\* abortIfFail(condition) with a false condition: the process ends inside
\* the call and nothing else is changed.
abortIfFail(op, object, extension) ==
    /\ aborted' = TRUE
    /\ invoked' = Invocation(op, object, extension, getName(extension),
                             "aborted", nullptr)
    /\ UNCHANGED <<m_extensions, m_object>>

\* Object::addExtension
addExtension(this, extension) ==
    /\ ~aborted
    /\ IF getObject(extension) # nullptr
       THEN abortIfFail("addExtension", this, extension)
       ELSE /\ IF getObject(extension) = this
               THEN UNCHANGED <<m_extensions, m_object>>
               ELSE IF m_extensions[this][getName(extension)] = nullptr
                    THEN /\ m_extensions' =
                              [m_extensions EXCEPT
                                  ![this][getName(extension)] = extension]
                         /\ m_object' = attachToObject(extension, this)
                    ELSE UNCHANGED <<m_extensions, m_object>>
            /\ invoked' = Invocation("addExtension", this, extension,
                                     getName(extension), "void", nullptr)
            /\ UNCHANGED aborted

\* Object::removeExtension
removeExtension(this, extension) ==
    /\ ~aborted
    /\ IF getObject(extension) # this
       THEN abortIfFail("removeExtension", this, extension)
       ELSE /\ IF m_extensions[this][getName(extension)] # nullptr
               THEN /\ m_object' = detachFromObject(extension)
                    /\ m_extensions' =
                         [m_extensions EXCEPT
                             ![this][getName(extension)] = nullptr]
                    /\ invoked' = Invocation("removeExtension", this,
                                             extension, getName(extension),
                                             "true", nullptr)
               ELSE /\ UNCHANGED <<m_extensions, m_object>>
                    /\ invoked' = Invocation("removeExtension", this,
                                             extension, getName(extension),
                                             "false", nullptr)
            /\ UNCHANGED aborted

\* Object::findExtension
findExtension(this, name) ==
    /\ ~aborted
    /\ invoked' = Invocation("findExtension", this, nullptr, name, "found",
                             m_extensions[this][name])
    /\ UNCHANGED <<m_extensions, m_object, aborted>>

\* No object has an extension, no extension is attached, no call was made.
ObjectIdle ==
    /\ m_extensions = [o \in Objects |-> [n \in Names |-> nullptr]]
    /\ m_object = [e \in Extensions |-> nullptr]
    /\ invoked = NoInvocation
    /\ aborted = FALSE

(***************************************************************************)
(* MetaClass (src/metadata/metaclass.cpp)                                  *)
(***************************************************************************)
\* The metaclasses, in the order of their declaration: a class is declared
\* after its base classes.
Classes == 1..MaxClasses

\* The class graphs META_CLASS(name, Class, Bases...) can declare.
ClassGraphs ==
    {g \in [Classes -> SUBSET Classes] :
        \A c \in Classes : \A b \in g[c] : b < c}

\* The queries the tests of the repository make for a class other than the
\* metaclass itself: the class is a base class of the metaclass (AbstractClass
\* and MetaObject, Object and Interface) or a base class of one of its base
\* classes (Object and AbstractClass, Object and MetaObject).
RECURSIVE testedBase(_, _)
testedBase(this, metaClass) ==
    \E b \in baseClasses[this] : b = metaClass \/ testedBase(b, metaClass)

\* MetaClassDescriptor::hasSuperClass, what it can answer.  Its code is not
\* part of the sources; the tests expect true for the queries above and
\* expect no answer for any other query, which is left open.
hasSuperClass(this, metaClass) ==
    IF testedBase(this, metaClass) THEN {TRUE} ELSE BOOLEAN

\* MetaClass::isDerivedFrom, what it can answer.  Every metaclass of a class
\* graph has its descriptor, so the assertion of the first line holds.
isDerivedFrom(this, metaClass) ==
    IF metaClass = this THEN {TRUE} ELSE hasSuperClass(this, metaClass)

Query(this, metaClass, result) ==
    [this |-> this, metaClass |-> metaClass, result |-> result]

NoQuery == Query(0, 0, FALSE)

\* The class graph without base classes, and no query made.
MetaIdle ==
    /\ baseClasses = [c \in Classes |-> {}]
    /\ derived = NoQuery

(***************************************************************************)
(* Job (src/tasks/job.cpp).  The thread pool queues the job, schedules it   *)
(* and runs its worker, which executes JobPrivate::main statement by        *)
(* statement; Job::stop is called from any other thread at any time.        *)
(***************************************************************************)
\* Job::Status
Status == {"Deferred", "Queued", "Scheduled", "Running", "Stopped"}

\* A job as constructed: not queued, and no hook of it called.
NewJob ==
    [status |-> "Deferred", pc |-> "idle", ran |-> "no", completed |-> "no",
     returned |-> "no", stopRequested |-> FALSE, stops |-> 0, cycles |-> 0]

JobIdle == job = NewJob

\* JobPrivate::setStatus
setStatus(status) == [job EXCEPT !.status = status]

\* Job::isStopped
isStopped == job.status = "Stopped"

\* JobPrivate::notifyJobQueued: the pool has taken the job into its queue.
notifyJobQueued ==
    /\ job.pc = "idle"
    /\ job.cycles < MaxCycles
    /\ job' = [setStatus("Queued") EXCEPT
                  !.pc = "queued", !.ran = "no", !.completed = "no",
                  !.returned = "no", !.stopRequested = FALSE,
                  !.cycles = @ + 1]
    /\ UNCHANGED aborted

\* JobPrivate::notifyJobScheduled: a thread of the pool has picked the job.
notifyJobScheduled ==
    /\ job.pc = "queued"
    /\ job' = [setStatus("Scheduled") EXCEPT !.pc = "scheduled"]
    /\ UNCHANGED aborted

\* JobPrivate::runJob: the worker task is invoked and enters main.
runJob ==
    /\ job.pc = "scheduled"
    /\ job' = [job EXCEPT !.pc = "entry"]
    /\ UNCHANGED aborted

\* JobPrivate::main, line 37: the entry assertion.
mainEntry ==
    /\ job.pc = "entry"
    /\ IF job.status = "Scheduled"
       THEN job' = [job EXCEPT !.pc = "setRunning"] /\ UNCHANGED aborted
       ELSE job' = [job EXCEPT !.pc = "aborted"] /\ aborted' = TRUE

\* JobPrivate::main, line 39
mainSetRunning ==
    /\ job.pc = "setRunning"
    /\ job' = [setStatus("Running") EXCEPT !.pc = "check"]
    /\ UNCHANGED aborted

\* JobPrivate::main, line 41
mainCheck ==
    /\ job.pc = "check"
    /\ job' = [job EXCEPT !.pc = IF ~isStopped THEN "run" ELSE "setStopped"]
    /\ UNCHANGED aborted

\* JobPrivate::main, line 43: run() is invoked; ran keeps the status it is
\* invoked with.
mainRun ==
    /\ job.pc = "run"
    /\ job' = [job EXCEPT !.pc = "setStopped", !.ran = job.status]
    /\ UNCHANGED aborted

\* JobPrivate::main, line 46
mainSetStopped ==
    /\ job.pc = "setStopped"
    /\ job' = [setStatus("Stopped") EXCEPT !.pc = "completed"]
    /\ UNCHANGED aborted

\* JobPrivate::main, line 47: onTaskCompleted() is invoked; completed keeps
\* the status it is invoked with.
mainCompleted ==
    /\ job.pc = "completed"
    /\ job' = [job EXCEPT !.pc = "setDeferred", !.completed = job.status]
    /\ UNCHANGED aborted

\* JobPrivate::main, line 48
mainSetDeferred ==
    /\ job.pc = "setDeferred"
    /\ job' = [setStatus("Deferred") EXCEPT !.pc = "return"]
    /\ UNCHANGED aborted

\* JobPrivate::main, line 49: main returns; returned keeps the status the
\* job has then.
mainReturn ==
    /\ job.pc = "return"
    /\ job' = [job EXCEPT !.pc = "idle", !.returned = job.status]
    /\ UNCHANGED aborted

\* Job::stop, called from another thread.  stopRequested records a call
\* made while the job was queued or scheduled and its worker had not begun.
stop ==
    /\ job.pc \notin {"aborted", "destroyed"}
    /\ job.stops < MaxStops
    /\ job' = [setStatus("Stopped") EXCEPT
                  !.stops = @ + 1,
                  !.stopRequested = @ \/ job.pc \in {"queued", "scheduled"}]
    /\ UNCHANGED aborted

\* Job::reset, called on a job that is not in the pool.
reset ==
    /\ job.pc = "idle"
    /\ IF job.status \in {"Deferred", "Stopped"}
       THEN job' = setStatus("Deferred") /\ UNCHANGED aborted
       ELSE job' = [job EXCEPT !.pc = "aborted"] /\ aborted' = TRUE

\* Job::~Job, called on a job that is not in the pool.
destroy ==
    /\ job.pc = "idle"
    /\ IF job.status \in {"Deferred", "Stopped"}
       THEN job' = [job EXCEPT !.pc = "destroyed"] /\ UNCHANGED aborted
       ELSE job' = [job EXCEPT !.pc = "aborted"] /\ aborted' = TRUE

\* ---------------------------------------------------------------------
\* TtlCache<Key, Element>
\* ---------------------------------------------------------------------

Keys == 1..MaxKeys
\* The cache only copies and moves elements: two distinct ones tell a
\* stored element from a replaced one.
CacheElements == {"x", "y"}
\* No element: the std::nullopt of get(), the element of no node.
NoElement == "none"
TimePoints == 0..MaxTime

\* CacheNode: an element and the time point it was last refreshed at; the
\* constructor takes the reading the clock has when the caller builds it.
CacheNode(element, reading) == [element |-> element, expiryTime |-> reading]
\* The value a key that is not in m_cache is mapped to.
NoNode == [element |-> NoElement, expiryTime |-> 0]

\* m_cache.find(key) != m_cache.end()
contains(cache, key) == cache[key] # NoNode
\* m_cache.size()
cacheSize(cache) == Cardinality({k \in Keys : contains(cache, k)})

\* std::map<TimePoint, Key>::insert: a time point that is already a key of
\* the map keeps its entry, and nothing is inserted.
TimeInsert(index, timePoint, key) ==
    IF \E p \in index : p[1] = timePoint
    THEN index
    ELSE index \cup {<<timePoint, key>>}
\* std::map<TimePoint, Key>::erase(const key_type&)
TimeErase(index, timePoint) == {p \in index : p[1] # timePoint}
\* The range [upper_bound(timePoint), end()) of the map.
upper_bound(index, timePoint) == {p \in index : p[1] > timePoint}

\* The last call made on the cache: its key, what it returned (the element
\* is the one get() returned) and how many times it purged.
Answer(op, key, element, ret, purges) ==
    [op |-> op, key |-> key, element |-> element, ret |-> ret,
     purges |-> purges]
NoAnswer == Answer("none", 0, NoElement, FALSE, 0)

\* purge() on a given cache and time index.
purgeOutcome(cache, index) ==
    LET timeStamp == now - ttl
        pos == upper_bound(index, timeStamp)
    IN  IF pos = {}
        THEN [m_cache |-> [k \in Keys |-> NoNode], m_timeBuffer |-> {}]
        ELSE [m_cache |->
                 [k \in Keys |->
                     IF \E p \in index \ pos : p[2] = k
                     THEN NoNode ELSE cache[k]],
              m_timeBuffer |-> pos]

belowCapacity_Always(cache) == TRUE
\* m_cache.size() < capacity
belowCapacity(cache) == cacheSize(cache) < cacheCapacity

\* utils::ScopeValue<bool>: the variable holds the value while the object
\* is in scope and gets its previous value back when the scope is left.
ScopeValue(variable, value) == [inScope |-> value, onExit |-> variable]

\* put() on a given cache, time index and guard.
RECURSIVE putOutcome(_, _, _, _, _)
putOutcome(cache, index, putGuard, key, node) ==
    IF contains(cache, key)
    THEN [m_cache |-> [cache EXCEPT ![key] = node],
          m_timeBuffer |->
              TimeInsert(TimeErase(index, cache[key].expiryTime),
                         node.expiryTime, key),
          m_putGuard |-> putGuard, ret |-> TRUE, purges |-> 0]
    ELSE IF belowCapacity(cache)
    THEN [m_cache |-> [cache EXCEPT ![key] = node],
          m_timeBuffer |-> TimeInsert(index, node.expiryTime, key),
          m_putGuard |-> putGuard, ret |-> TRUE, purges |-> 0]
    ELSE IF putGuard
    THEN [m_cache |-> cache, m_timeBuffer |-> index,
          m_putGuard |-> putGuard, ret |-> FALSE, purges |-> 0]
    ELSE LET guard == ScopeValue(putGuard, TRUE)
             purged == purgeOutcome(cache, index)
             retry == putOutcome(purged.m_cache, purged.m_timeBuffer,
                                 guard.inScope, key, node)
         IN  [retry EXCEPT !.purges = @ + 1, !.m_putGuard = guard.onExit]

put(key, node) ==
    LET outcome == putOutcome(m_cache, m_timeBuffer, m_putGuard, key, node)
    IN  /\ m_cache' = outcome.m_cache
        /\ m_timeBuffer' = outcome.m_timeBuffer
        /\ m_putGuard' = outcome.m_putGuard
        /\ answer' = Answer("put", key, NoElement, outcome.ret, outcome.purges)
        /\ UNCHANGED <<cacheCapacity, ttl, now>>

get(key) ==
    /\ IF contains(m_cache, key)
       THEN /\ m_timeBuffer' =
                   TimeInsert(TimeErase(m_timeBuffer,
                                        m_cache[key].expiryTime),
                              now, key)
            /\ m_cache' = [m_cache EXCEPT ![key].expiryTime = now]
            /\ answer' = Answer("get", key, m_cache[key].element, TRUE, 0)
       ELSE /\ UNCHANGED <<m_cache, m_timeBuffer>>
            /\ answer' = Answer("get", key, NoElement, FALSE, 0)
    /\ UNCHANGED <<m_putGuard, cacheCapacity, ttl, now>>

purge ==
    LET outcome == purgeOutcome(m_cache, m_timeBuffer)
    IN  /\ m_cache' = outcome.m_cache
        /\ m_timeBuffer' = outcome.m_timeBuffer
        /\ answer' = Answer("purge", 0, NoElement, FALSE, 1)
        /\ UNCHANGED <<m_putGuard, cacheCapacity, ttl, now>>

cacheClear ==
    /\ m_cache' = [k \in Keys |-> NoNode]
    /\ m_timeBuffer' = {}
    /\ answer' = Answer("clear", 0, NoElement, FALSE, 0)
    /\ UNCHANGED <<m_putGuard, cacheCapacity, ttl, now>>

\* The steady clock moves on between two calls.
tick ==
    /\ now < MaxTime
    /\ now' = now + 1
    /\ UNCHANGED <<m_cache, m_timeBuffer, m_putGuard, cacheCapacity, ttl,
                   answer>>

\* The cache as constructed, when the calls are made on other components.
CacheIdle ==
    /\ m_cache = [k \in Keys |-> NoNode]
    /\ m_timeBuffer = {}
    /\ m_putGuard = FALSE
    /\ cacheCapacity = 0
    /\ ttl = 0
    /\ now = 0
    /\ answer = NoAnswer

OthersIdle == ObjectIdle /\ MetaIdle /\ JobIdle /\ CacheIdle

\* The container as constructed, when the calls are made on other components.
ContainerIdle ==
    /\ m_container = <<>>
    /\ capacity = 0
    /\ residue = <<>>
    /\ m_lockedView = NoView
    /\ lockCount = 0
    /\ depth = 0
    /\ last = Call("none", 0, DefaultValue, nullopt)
    /\ tomb = NoTomb
    /\ scn = NoScenario

InitObject == ContainerIdle /\ ObjectIdle /\ MetaIdle /\ JobIdle /\ CacheIdle

AddExtension ==
    /\ \E o \in Objects, e \in Extensions : addExtension(o, e)
    /\ UNCHANGED <<containerVars, metaVars, job, cacheVars>>

RemoveExtension ==
    /\ \E o \in Objects, e \in Extensions : removeExtension(o, e)
    /\ UNCHANGED <<containerVars, metaVars, job, cacheVars>>

FindExtension ==
    /\ \E o \in Objects, n \in Names : findExtension(o, n)
    /\ UNCHANGED <<containerVars, metaVars, job, cacheVars>>

NextObject ==
    \/ AddExtension
    \/ RemoveExtension
    \/ FindExtension

SpecObject == InitObject /\ [][NextObject]_vars

InitMeta ==
    /\ ContainerIdle
    /\ ObjectIdle
    /\ baseClasses \in ClassGraphs
    /\ derived = NoQuery
    /\ JobIdle
    /\ CacheIdle

IsDerivedFrom ==
    /\ \E this \in Classes, metaClass \in Classes :
          \E result \in isDerivedFrom(this, metaClass) :
             derived' = Query(this, metaClass, result)
    /\ UNCHANGED <<containerVars, objectVars, baseClasses, job, cacheVars>>

NextMeta == IsDerivedFrom

SpecMeta == InitMeta /\ [][NextMeta]_vars

\* The other components as constructed, when the calls are made on a job.
jobFrame ==
    UNCHANGED <<containerVars, m_extensions, m_object, invoked, metaVars,
                cacheVars>>

InitJob == ContainerIdle /\ ObjectIdle /\ MetaIdle /\ JobIdle /\ CacheIdle

NotifyJobQueued == notifyJobQueued /\ jobFrame
NotifyJobScheduled == notifyJobScheduled /\ jobFrame
RunJob == runJob /\ jobFrame
MainEntry == mainEntry /\ jobFrame
MainSetRunning == mainSetRunning /\ jobFrame
MainCheck == mainCheck /\ jobFrame
MainRun == mainRun /\ jobFrame
MainSetStopped == mainSetStopped /\ jobFrame
MainCompleted == mainCompleted /\ jobFrame
MainSetDeferred == mainSetDeferred /\ jobFrame
MainReturn == mainReturn /\ jobFrame
Stop == stop /\ jobFrame
Reset == reset /\ jobFrame
Destroy == destroy /\ jobFrame

NextJob ==
    \/ NotifyJobQueued
    \/ NotifyJobScheduled
    \/ RunJob
    \/ MainEntry
    \/ MainSetRunning
    \/ MainCheck
    \/ MainRun
    \/ MainSetStopped
    \/ MainCompleted
    \/ MainSetDeferred
    \/ MainReturn
    \/ Stop
    \/ Reset
    \/ Destroy

SpecJob == InitJob /\ [][NextJob]_vars

\* ---------------------------------------------------------------------
\* The calls made on a TtlCache
\* ---------------------------------------------------------------------

cacheFrame == UNCHANGED <<containerVars, objectVars, metaVars, job>>

InitCache ==
    /\ ContainerIdle
    /\ ObjectIdle
    /\ MetaIdle
    /\ JobIdle
    /\ m_cache = [k \in Keys |-> NoNode]
    /\ m_timeBuffer = {}
    /\ m_putGuard = FALSE
    /\ cacheCapacity \in 0..(MaxKeys - 1)
    /\ ttl \in {1, MaxTime}   \* the shortest and the longest of the clock
    /\ now = 0
    /\ answer = NoAnswer

\* The caller builds the node, at the clock's reading of that moment, and
\* hands it to put(), whose purge() reads the clock again.
Put ==
    /\ \E key \in Keys, element \in CacheElements, built \in 0..now :
          put(key, CacheNode(element, built))
    /\ cacheFrame
Get == (\E key \in Keys : get(key)) /\ cacheFrame
Purge == purge /\ cacheFrame
CacheClear == cacheClear /\ cacheFrame
Tick == tick /\ cacheFrame

NextCache ==
    \/ Put
    \/ Get
    \/ Purge
    \/ CacheClear
    \/ Tick

SpecCache == InitCache /\ [][NextCache]_vars

TypeOKCache ==
    /\ m_cache \in [Keys -> [element : CacheElements \cup {NoElement},
                             expiryTime : TimePoints]]
    /\ m_timeBuffer \subseteq (TimePoints \X Keys)
    /\ \A p, q \in m_timeBuffer : p[1] = q[1] => p = q
    /\ m_putGuard = FALSE
    /\ now \in TimePoints


(***************************************************************************)
(* The container under any sequence of calls                               *)
(***************************************************************************)
Init ==
    /\ m_container = <<>>
    /\ capacity = 0
    /\ residue = <<>>
    /\ m_lockedView = NoView
    /\ lockCount = 0
    /\ depth = 0
    /\ last = Call("none", 0, DefaultValue, nullopt)
    /\ tomb = NoTomb
    /\ scn = NoScenario
    /\ OthersIdle

Lock == lock /\ UNCHANGED <<scn, others>>
Unlock == unlock /\ UNCHANGED <<scn, others>>
Clear == clear /\ UNCHANGED <<scn, others>>
InsertCopy ==
    /\ depth = 0
    /\ \E p \in 1..(Len(m_container) + 1), item \in Elements :
          insert("insert_copy", p, item)
    /\ UNCHANGED <<scn, others>>
InsertMove ==
    /\ depth = 0
    /\ \E p \in 1..(Len(m_container) + 1), item \in Elements :
          insert("insert_move", p, item)
    /\ UNCHANGED <<scn, others>>
\* The unlocked insert re-entering itself with the arguments it was given,
\* in a build that follows the self-call.
InsertRecurse ==
    /\ depth > 0
    /\ insert(last.op, last.pos, last.item)
    /\ UNCHANGED <<scn, others>>
EraseIterator ==
    /\ \E p \in 1..Len(m_container) : erase("erase", p)
    /\ UNCHANGED <<scn, others>>
EraseConstIterator ==
    /\ \E p \in 1..Len(m_container) : erase("erase_const", p)
    /\ UNCHANGED <<scn, others>>
PushBack ==
    /\ \E item \in Elements : push_back(item)
    /\ UNCHANGED <<scn, others>>

Next ==
    \/ Lock
    \/ Unlock
    \/ Clear
    \/ InsertCopy
    \/ InsertMove
    \/ InsertRecurse
    \/ EraseIterator
    \/ EraseConstIterator
    \/ PushBack

Spec == Init /\ [][Next]_vars

(***************************************************************************)
(* The acquire hook called again while the container is locked: the lock   *)
(* primitive is a friend of the container and the only caller of the hook. *)
(***************************************************************************)
Reacquire ==
    /\ depth = 0
    /\ lockCount > 0
    /\ m_lockedView' = acquireResources
    /\ last' = Call("acquire", 0, DefaultValue, nullopt)
    /\ UNCHANGED <<m_container, capacity, residue, lockCount, depth, tomb, scn>>
    /\ UNCHANGED others

NextHooks == Next \/ Reacquire

SpecHooks == Init /\ [][NextHooks]_vars

TypeOK ==
    /\ m_container \in Seq(Elements) /\ Len(m_container) <= MaxLen
    /\ residue \in Seq(Elements)
    /\ lockCount \in 0..MaxLocks
    /\ depth \in 0..MaxDepth
    /\ m_lockedView.engaged \in BOOLEAN
    /\ m_lockedView.engaged => Len(Buffer) >= m_lockedView.m_viewEnd - 1
    /\ Len(m_container) <= capacity

(***************************************************************************)
(* The same calls, with the history of the last reset slot kept            *)
(***************************************************************************)
InitTrack ==
    /\ m_container = <<>>
    /\ capacity = 0
    /\ residue = <<>>
    /\ m_lockedView = NoView
    /\ lockCount = 0
    /\ depth = 0
    /\ last = Call("none", 0, DefaultValue, nullopt)
    /\ tomb = NoTomb
    /\ scn = [phase |-> "track", S |-> <<>>, E |-> {}]
    /\ OthersIdle

SpecTrack == InitTrack /\ [][Next]_vars

(***************************************************************************)
(* Scenario: a storage S of valid elements; first lock; erase a set E of   *)
(* positions of the view, each once; last unlock ("done").  Or, before     *)
(* the unlock, one clear() ("cleared"), and then the unlock ("swept").     *)
(***************************************************************************)
ValidSeqs == UNION {[1..n -> Elements \ {DefaultValue}] : n \in 0..MaxLen}

\* The capacity n calls of push_back leave an empty storage with.
RECURSIVE Pushed(_)
Pushed(n) == IF n = 0 THEN 0 ELSE GrowTo(n - 1, Pushed(n - 1))

InitScenario ==
    \E S \in ValidSeqs :
       /\ m_container = S
       /\ capacity = Pushed(Len(S))
       /\ residue = <<>>
       /\ m_lockedView = NoView
       /\ lockCount = 0
       /\ depth = 0
       /\ last = [op |-> "none", pos |-> 0, item |-> DefaultValue,
                  ret |-> nullopt, before |-> Len(S)]
       /\ tomb = NoTomb
       /\ scn = [phase |-> "start", S |-> S, E |-> {}]
       /\ OthersIdle

ScenarioLock ==
    /\ scn.phase = "start"
    /\ lock
    /\ scn' = [scn EXCEPT !.phase = "locked"]
    /\ UNCHANGED others

ScenarioErase ==
    /\ scn.phase = "locked"
    /\ \E p \in (1..Len(m_container)) \ scn.E, op \in Erases :
          /\ erase(op, p)
          /\ scn' = [scn EXCEPT !.E = @ \cup {p}]
          /\ UNCHANGED others

ScenarioUnlock ==
    /\ scn.phase = "locked"
    /\ unlock
    /\ scn' = [scn EXCEPT !.phase = "done"]
    /\ UNCHANGED others

ScenarioClear ==
    /\ scn.phase = "locked"
    /\ clear
    /\ scn' = [scn EXCEPT !.phase = "cleared"]
    /\ UNCHANGED others

ScenarioSweep ==
    /\ scn.phase = "cleared"
    /\ unlock
    /\ scn' = [scn EXCEPT !.phase = "swept"]
    /\ UNCHANGED others

NextScenario ==
    \/ ScenarioLock
    \/ ScenarioErase
    \/ ScenarioUnlock
    \/ ScenarioClear
    \/ ScenarioSweep

SpecScenario == InitScenario /\ [][NextScenario]_vars

(***************************************************************************)
(* Scenario: a storage S of valid elements with spare capacity; first      *)
(* lock; then push_back of valid elements (scn.S keeps them, in order),    *)
(* erase at positions of the view's range and clear(); last unlock.        *)
(***************************************************************************)
InitAppend ==
    \E S \in ValidSeqs :
       /\ Len(S) >= 1 /\ Len(S) < MaxLen
       /\ m_container = S
       /\ capacity = Pushed(MaxLen)
       /\ residue = <<>>
       /\ m_lockedView = NoView
       /\ lockCount = 0
       /\ depth = 0
       /\ last = [op |-> "none", pos |-> 0, item |-> DefaultValue,
                  ret |-> nullopt, before |-> Len(S)]
       /\ tomb = NoTomb
       /\ scn = [phase |-> "unlocked", S |-> <<>>, E |-> {}]
       /\ OthersIdle

AppendLock ==
    /\ scn.phase = "unlocked"
    /\ lock
    /\ scn' = [scn EXCEPT !.phase = "appending"]
    /\ UNCHANGED others

AppendPushBack ==
    /\ scn.phase = "appending"
    /\ Len(scn.S) < MaxLen
    /\ \E item \in Elements \ {DefaultValue} :
          /\ push_back(item)
          /\ scn' = [scn EXCEPT !.S = Append(@, item)]
    /\ UNCHANGED others

AppendErase ==
    /\ scn.phase = "appending"
    /\ \E p \in 1..Len(m_container), op \in Erases :
          /\ p < m_lockedView.m_viewEnd
          /\ erase(op, p)
    /\ UNCHANGED <<scn, others>>

AppendClear ==
    /\ scn.phase = "appending"
    /\ clear
    /\ UNCHANGED <<scn, others>>

AppendUnlock ==
    /\ scn.phase = "appending"
    /\ unlock
    /\ scn' = [scn EXCEPT !.phase = "released"]
    /\ UNCHANGED others

NextAppend ==
    \/ AppendLock
    \/ AppendPushBack
    \/ AppendErase
    \/ AppendClear
    \/ AppendUnlock

SpecAppend == InitAppend /\ [][NextAppend]_vars

(***************************************************************************)
(* Properties                                                              *)
(***************************************************************************)
ViewBegin == m_lockedView.m_viewBegin
ViewEnd == m_lockedView.m_viewEnd

\* The position lies in the range [begin, end) of the stable view.
InRange(position) == ViewBegin <= position /\ position < ViewEnd

\* The physical slots of the storage between the view's begin and end.
SlotsInView == Cardinality({i \in ViewBegin..(ViewEnd - 1) : i <= Len(m_container)})

\* The contents of the slots of the storage that lie inside the view's range.
InViewSlots(s) ==
    SubSeq(s, 1, IF ViewEnd - 1 < Len(s) THEN ViewEnd - 1 ELSE Len(s))

NumValid(s) == Cardinality({i \in 1..Len(s) : valid_element(s[i])})

\* C1: while a stable view exists and its buffer was not reallocated, the
\* storage holds exactly as many physical slots between the view's begin and
\* end as when the view was captured, whatever clear, insert, erase and
\* push_back calls were made (no in-view slot is removed before unlock).
C1_SlotCountStable ==
    (m_lockedView.engaged /\ ~Stale) => SlotsInView = ViewEnd - ViewBegin

\* C2: while locked, insert (either overload) at any position inside
\* [view.begin(), view.end()) returns the empty result, also when the slot at
\* the position holds a tombstone.
C2_InsertInViewRejected ==
    [][(m_lockedView.engaged /\ ~Stale /\ last'.op \in Inserts
          /\ InRange(last'.pos))
       => last'.ret = nullopt]_vars

\* C3: erase at a position inside the stable view while locked does not
\* remove the slot: it resets the slot to the default value, leaves the
\* physical slot count unchanged and returns an iterator to the position.
C3_EraseInViewResets ==
    [][(m_lockedView.engaged /\ ~Stale /\ last'.op \in Erases
          /\ InRange(last'.pos))
       => /\ m_container' = [m_container EXCEPT ![last'.pos] = DefaultValue]
          /\ Len(m_container') = Len(m_container)
          /\ last'.ret = last'.pos]_vars

\* C4: right after the 1 -> 0 transition every slot of the storage passes
\* the validity predicate, the size is the number of valid elements the
\* storage held just before, and the stable view is discarded.
C4_ReleaseCompacts ==
    [][(lockCount = 1 /\ lockCount' = 0)
       => /\ \A i \in 1..Len(m_container') : valid_element(m_container'[i])
          /\ Len(m_container') = NumValid(m_container)
          /\ ~m_lockedView'.engaged]_vars

\* C4 witness: the last unlock swept tombstones away and kept elements.
C4_Witness ==
    /\ last.op = "unlock" /\ lockCount = 0
    /\ Len(m_container) < last.before
    /\ Len(m_container) > 0

\* S with the elements at the positions in E removed, in order.
RECURSIVE Keep(_, _, _)
Keep(S, E, i) ==
    IF i > Len(S) THEN <<>>
    ELSE (IF i \in E THEN <<>> ELSE <<S[i]>>) \o Keep(S, E, i + 1)

\* C5: S valid, first lock, erase the positions E of the view, last unlock:
\* while locked the storage keeps its Len(S) physical slots (and with three
\* elements and the middle one erased the view's size is 2); after the
\* unlock the storage is exactly S without the elements at E, in order.
C5_EraseThenUnlock ==
    /\ scn.phase = "locked" => Len(m_container) = Len(scn.S)
    /\ (scn.phase = "locked" /\ Len(scn.S) = 3 /\ scn.E = {2})
          => \A memory \in ViewMemory : size(memory) = 2
    /\ scn.phase = "done" => m_container = Keep(scn.S, scn.E, 1)

\* C5 witness: [a, b, a] with b erased became [a, a] after the unlock.
C5_Witness ==
    /\ scn.phase = "done" /\ Len(scn.S) = 3 /\ scn.E = {2}
    /\ scn.S[1] # scn.S[2]
    /\ m_container = <<scn.S[1], scn.S[3]>>

\* C6: right after clear() on a locked container the view's size is 0 and
\* the storage still holds its physical slots; after the last unlock the
\* physical size is 0.
C6_ClearEmptiesView ==
    /\ scn.phase = "cleared"
          => /\ \A memory \in ViewMemory : size(memory) = 0
             /\ Len(m_container) = Len(scn.S)
    /\ scn.phase = "swept" => Len(m_container) = 0

\* C7: once erase has reset the valid element at a position of the view,
\* walking the view never stops at that position on the old value and
\* find(old value) never returns that position, for as long as the view lasts.
C7_TombstoneNeverSeen ==
    (m_lockedView.engaged /\ ~Stale /\ tomb.pos # 0)
    => \A memory \in ViewMemory :
          /\ ~(inView(memory, tomb.pos) /\ memory[tomb.pos] = tomb.old)
          /\ find(memory, tomb.old) # tomb.pos

\* C8: an insert (either overload) made while unlocked returns: the item is
\* in the storage right before the position, the size has grown by one and
\* the result is an iterator to the new element.
C8_UnlockedInsertSucceeds ==
    (last.op \in Inserts /\ ~m_lockedView.engaged)
    => /\ depth = 0
       /\ last.ret = last.pos
       /\ Len(m_container) = last.before + 1
       /\ m_container[last.pos] = last.item

\* C9: while locked, insert at a position outside the view's range (the
\* view's end or a slot appended later) puts the item into the storage right
\* before the position and returns an iterator to it; the slots inside the
\* view keep their number and contents.
C9_InsertOutsideView ==
    [][(m_lockedView.engaged /\ last'.op \in Inserts /\ last'.pos >= ViewEnd)
       => /\ m_container' = InsertAt(m_container, last'.pos, last'.item)
          /\ last'.ret = last'.pos
          /\ InViewSlots(m_container') = InViewSlots(m_container)]_vars

\* C9 witness: an insert before a slot appended after the view was captured.
C9_Witness ==
    /\ m_lockedView.engaged /\ last.op \in Inserts
    /\ last.ret # nullopt /\ last.pos >= ViewEnd
    /\ ViewEnd > ViewBegin
    /\ Len(m_container) > last.pos
    /\ m_container[last.pos] = last.item

\* C10: while locked, erase at a position outside the view removes that slot
\* from the storage (the size drops by one, the slots inside the view are
\* untouched) and returns the empty result.
C10_EraseOutsideView ==
    [][(m_lockedView.engaged /\ last'.op \in Erases /\ last'.pos >= ViewEnd)
       => /\ m_container' = RemoveAt(m_container, last'.pos)
          /\ Len(m_container') = Len(m_container) - 1
          /\ InViewSlots(m_container') = InViewSlots(m_container)
          /\ last'.ret = nullopt]_vars

\* C10 witness: a slot appended during the window was erased, others remain.
C10_Witness ==
    /\ m_lockedView.engaged /\ last.op \in Erases
    /\ last.ret = nullopt /\ last.pos >= ViewEnd
    /\ ViewEnd > ViewBegin
    /\ Len(m_container) = last.before - 1
    /\ Len(m_container) >= last.pos

\* C11: while unlocked, erase, clear and push_back act on the storage as on
\* a plain sequence: erase removes the slot and returns the position of the
\* following element (or end), clear empties the storage at once, push_back
\* appends; no slot is reset to the default value in place.
C11_UnlockedIsPlainSequence ==
    [][(lockCount = 0 /\ depth = 0)
       => /\ last'.op \in Erases
             => /\ m_container' = RemoveAt(m_container, last'.pos)
                /\ last'.ret = last'.pos
          /\ last'.op = "clear" => m_container' = <<>>
          /\ last'.op = "push_back"
             => m_container' = Append(m_container, last'.item)]_vars

\* C11 witness: an unlocked erase removed a slot in front of another one.
C11_Witness ==
    /\ lockCount = 0 /\ last.op \in Erases
    /\ last.ret = last.pos
    /\ Len(m_container) = last.before - 1
    /\ Len(m_container) >= last.pos

\* C12: in every reachable state isLocked() (tested by clear) is true iff a
\* view is stored (tested by insert and erase) iff the lock count is positive.
C12_LockedIffView ==
    /\ isLocked <=> m_lockedView.engaged
    /\ m_lockedView.engaged <=> lockCount > 0

\* C12 witness: one of two holders has unlocked; the container is still
\* locked and still stores the view.
C12_Witness ==
    /\ last.op = "unlock" /\ lockCount = 1
    /\ isLocked /\ m_lockedView.engaged

\* C13: whatever the interleaving of lock and unlock calls of several
\* holders, the acquire hook runs on the 0 -> 1 step and on no other, and the
\* release hook on the 1 -> 0 step and on no other: the stored view changes
\* only on these two steps, and a lock or unlock step that leaves a holder
\* changes neither the view nor the storage.
C13_HooksOncePerCohort ==
    [][/\ (lockCount = 0 /\ lockCount' = 1)
          => (~m_lockedView.engaged /\ m_lockedView'.engaged)
       /\ (lockCount = 1 /\ lockCount' = 0)
          => (m_lockedView.engaged /\ ~m_lockedView'.engaged)
       /\ (m_lockedView'.engaged # m_lockedView.engaged)
          => (lockCount = 0 \/ lockCount' = 0)
       /\ (last'.op \in {"lock", "unlock"} /\ lockCount > 0 /\ lockCount' > 0)
          => (m_lockedView' = m_lockedView /\ m_container' = m_container)]_vars

\* C13 witness: a holder unlocked while another one remains, and the
\* tombstone of the window is still in the storage.
C13_Witness ==
    /\ last.op = "unlock" /\ lockCount = 1
    /\ m_lockedView.engaged
    /\ \E i \in 1..Len(m_container) : ~valid_element(m_container[i])

\* C14: the acquire hook is idempotent: called while a view is stored it
\* leaves the stored begin/end pair and the storage as they are; called on
\* an unlocked container it stores the boundary of the storage as it is and
\* changes no element.
C14_AcquireIdempotent ==
    [][/\ (last'.op = "acquire" /\ m_lockedView.engaged)
          => (m_lockedView' = m_lockedView /\ m_container' = m_container)
       /\ (lockCount = 0 /\ lockCount' = 1)
          => /\ m_lockedView' = View
             /\ m_container' = m_container
             /\ capacity' = capacity]_vars

\* C14 witness: the hook ran again after the storage grew behind the view, so
\* a second capture would have stored another end.
C14_Witness ==
    /\ last.op = "acquire"
    /\ m_lockedView.engaged
    /\ Len(m_container) >= m_lockedView.m_viewEnd

\* C15: getLockedView() returns nothing while the container is unlocked, and
\* from the first acquire to the last release it returns the same begin/end
\* pair whatever clear, insert, erase or push_back calls are made in between.
C15_LockedViewFixed ==
    [][/\ lockCount' = 0 => ~getLockedView'.engaged
       /\ (lockCount > 0 /\ lockCount' > 0)
          => (getLockedView.engaged /\ getLockedView' = getLockedView)]_vars

\* C15 witness: push_back grew the storage during the window and the reader
\* still gets the pair captured at the first acquire.
C15_Witness ==
    /\ lockCount > 0 /\ last.op = "push_back"
    /\ getLockedView.engaged
    /\ Len(m_container) >= getLockedView.m_viewEnd

\* The positions of the view's range whose slot passes the validity
\* predicate.
ValidInRange(memory) ==
    {i \in ViewBegin..(ViewEnd - 1) : valid_element(memory[i])}

\* C16: view.size() is the number of slots of the view's range that pass the
\* validity predicate and isEmpty() is true iff that number is 0, whatever
\* slots of the range have been tombstoned, the first one included.
C16_SizeCountsValid ==
    scn.phase = "locked"
       => \A memory \in ViewMemory :
             /\ size(memory) = Cardinality(ValidInRange(memory))
             /\ isEmpty(memory) <=> Cardinality(ValidInRange(memory)) = 0

\* C17: the traversal of the view from begin() to end() stops at exactly the
\* valid slots of the range, in storage order, and at no slot that fails the
\* validity predicate.
C17_TraversalYieldsValid ==
    scn.phase = "locked"
       => \A memory \in ViewMemory :
             LET stops == ViewPositions(memory)
             IN  /\ \A k \in 1..Len(stops) : valid_element(memory[stops[k]])
                 /\ {stops[k] : k \in 1..Len(stops)} = ValidInRange(memory)
                 /\ \A j, k \in 1..Len(stops) : j < k => stops[j] < stops[k]

\* C18: view.find(item) is the position of the first valid slot of the range
\* that equals item, and the view's end when there is none, also when item is
\* the default value.
C18_FindFirstValid ==
    scn.phase = "locked"
       => \A memory \in ViewMemory, item \in Elements :
             LET hits == {i \in ValidInRange(memory) : memory[i] = item}
             IN find(memory, item) =
                   IF hits = {} THEN ViewEnd
                   ELSE CHOOSE i \in hits : \A j \in hits : i <= j

\* C19: push_back(item) appends the item as the last slot of the storage in
\* every lock state and leaves the existing slots, their contents and the
\* range of the stable view as they were: the stored begin/end pair is
\* unchanged and still refers to the slots of the storage.
C19_PushBackFrame ==
    [][last'.op = "push_back"
       => /\ m_container' = Append(m_container, last'.item)
          /\ m_lockedView' = m_lockedView
          /\ Stale' <=> Stale]_vars

\* C20: every 0 -> 1 step stores a fresh view that spans the whole storage
\* as it is at that instant, in the buffer the storage has at that instant;
\* the sweep of the window before it is complete, so no view outlives its
\* window and the storage a reader finds after the last unlock holds no
\* tombstone of that window.
C20_FreshViewPerWindow ==
    [][/\ (lockCount = 0 /\ lockCount' = 1)
          => /\ ~m_lockedView.engaged
             /\ m_lockedView'.engaged
             /\ m_lockedView'.m_viewBegin = 1
             /\ m_lockedView'.m_viewEnd = Len(m_container') + 1
             /\ m_lockedView'.buf = capacity'
             /\ m_container' = m_container
       /\ (lockCount = 1 /\ lockCount' = 0)
          => /\ m_lockedView' = NoView
             /\ \A i \in 1..Len(m_container') : valid_element(m_container'[i])]_vars

\* C20 witness: a window opened on a storage that holds elements appended
\* before it, in a buffer that has been reallocated; the view spans them.
C20_Witness ==
    /\ last.op = "lock" /\ lockCount = 1
    /\ m_lockedView.m_viewEnd = Len(m_container) + 1
    /\ Len(m_container) >= 2
    /\ m_lockedView.buf = capacity /\ capacity >= 2

\* C21: adding or removing elements takes the container exclusively: while a
\* reader holds its lock on the container no insert, erase, clear or
\* push_back step is taken, so every step taken then is a lock or an unlock.
C21_NoWriteWhileShared ==
    [][lockCount > 0 => last'.op \in {"lock", "unlock"}]_vars

\* C22: addExtension(extension) returns true and attaches the extension to
\* the object when it is not yet added to it; when it is already added the
\* call returns false and leaves the extension map and the owner as they
\* were.
C22_AddExtensionReports ==
    [][invoked'.op = "addExtension"
       => LET this == invoked'.object
              extension == invoked'.extension
          IN IF getObject(extension) # this
             THEN /\ invoked'.ret = "true"
                  /\ m_object'[extension] = this
                  /\ m_extensions'[this][getName(extension)] = extension
             ELSE /\ invoked'.ret = "false"
                  /\ m_extensions' = m_extensions
                  /\ m_object' = m_object]_vars

\* C23: removeExtension(extension) on an extension that extends the object
\* returns true, detaches it and makes findExtension of its name return
\* null; on an extension that does not extend the object it returns false
\* and leaves the extensions of the object as they were.
C23_RemoveExtensionReports ==
    [][invoked'.op = "removeExtension"
       => LET this == invoked'.object
              extension == invoked'.extension
          IN IF getObject(extension) = this
             THEN /\ invoked'.ret = "true"
                  /\ m_object'[extension] = nullptr
                  /\ m_extensions'[this][getName(extension)] = nullptr
             ELSE /\ invoked'.ret = "false"
                  /\ ~aborted'
                  /\ m_extensions' = m_extensions]_vars

\* C25: an insert that is rejected (the container is locked and the call
\* returns nothing) changes nothing: the contents and the number of slots of
\* the storage, its buffer and the begin/end of the stable view are the same
\* before and after the call.
C25_RejectedInsertNoEffect ==
    [][(m_lockedView.engaged /\ last'.op \in Inserts /\ last'.ret = nullopt)
       => /\ m_container' = m_container
          /\ capacity' = capacity
          /\ residue' = residue
          /\ m_lockedView' = m_lockedView
          /\ lockCount' = lockCount]_vars

\* C25 witness: an insert at a position of the view's range was rejected on a
\* storage that had room for one more element.
C25_Witness ==
    /\ m_lockedView.engaged /\ last.op \in Inserts /\ last.ret = nullopt
    /\ InRange(last.pos)
    /\ Len(m_container) = last.before /\ Len(m_container) < MaxLen

\* C26: tombstoning is idempotent: while locked, a second erase of a
\* position of the view that an erase has just reset leaves the storage and
\* the view as the first call left them and again returns the position.
C26_SecondEraseSame ==
    [][(/\ m_lockedView.engaged /\ ~Stale
        /\ last.op \in Erases /\ last.ret = last.pos /\ InRange(last.pos)
        /\ last'.op \in Erases /\ last'.pos = last.pos)
       => /\ m_container' = m_container
          /\ m_lockedView' = m_lockedView
          /\ last'.ret = last'.pos]_vars

\* The last n elements of a sequence.
LastN(s, n) == SubSeq(s, Len(s) - n + 1, Len(s))

\* C27: the elements appended with push_back while locked lie outside the
\* stable view: clear() and erases at positions of the view during the
\* window never reset them, and after the last unlock those that pass the
\* validity predicate are still in the storage, in the order of their append.
C27_AppendedSurvive ==
    /\ scn.phase = "appending"
       => /\ Len(m_container) >= Len(scn.S)
          /\ LastN(m_container, Len(scn.S)) = scn.S
          /\ \A k \in 1..Len(scn.S) :
                Len(m_container) - Len(scn.S) + k >= m_lockedView.m_viewEnd
    /\ scn.phase = "released"
       => /\ Len(m_container) >= Len(scn.S)
          /\ LastN(m_container, Len(scn.S)) = scn.S

\* C28: the entry assertion of JobPrivate::main holds in every interleaving
\* of notifyJobQueued, notifyJobScheduled, runJob and Job::stop: when the
\* worker enters main the status of the job is Scheduled.
C28_EntryAssertionHolds ==
    job.pc = "entry" => job.status = "Scheduled"

\* C29: during one execution of JobPrivate::main the status goes Scheduled,
\* Running, Stopped, Deferred in that order: run() is invoked only while the
\* status is Running, onTaskCompleted() only when the status has been set
\* to Stopped, and when main returns the status is Deferred.
C29_StatusOrderInMain ==
    /\ job.ran \in {"no", "Running"}
    /\ job.completed \in {"no", "Stopped"}
    /\ job.returned \in {"no", "Deferred"}

\* C30: a job on which stop() was called while it was queued or scheduled,
\* before its worker began to execute, never executes run().
C30_StopBeforeStartObserved ==
    job.stopRequested => job.ran = "no"

\* ---------------------------------------------------------------------
\* TtlCache
\* ---------------------------------------------------------------------

\* C31: after any sequence of put, get, purge and clear, the number of
\* cached entries, size(), is at most the capacity the cache was built with.
C31_SizeWithinCapacity == cacheSize(m_cache) <= cacheCapacity

\* A put() on a full cache has purged and retried, and the cache is full.
C31_Witness ==
    /\ answer.op = "put"
    /\ answer.purges = 1
    /\ cacheCapacity > 0
    /\ cacheSize(m_cache) = cacheCapacity

\* C32: after any sequence of put, get, purge and clear, the time index and
\* the cache agree: every cached key has exactly one entry of the time
\* index, under the time point its node holds, and the index has no entry
\* for a key that is not cached; two entries with the same clock value
\* included.
C32_IndexAgreesWithCache ==
    /\ \A k \in Keys :
          contains(m_cache, k) =>
              {p \in m_timeBuffer : p[2] = k} =
                  {<<m_cache[k].expiryTime, k>>}
    /\ \A p \in m_timeBuffer : contains(m_cache, p[2])

\* The cached entry of key k was last refreshed at or before now - ttl.
Expired(k) == contains(m_cache, k) /\ m_cache[k].expiryTime <= now - ttl

\* C33: purge() removes exactly the entries whose time point is at or
\* before now - ttl and keeps every other entry with its element and its
\* time point; when every entry is that old, the cache becomes empty.
C33_PurgeRemovesExpired ==
    [][purge =>
          /\ \A k \in Keys :
                m_cache'[k] = IF Expired(k) THEN NoNode ELSE m_cache[k]
          /\ (\A k \in Keys : contains(m_cache, k) => Expired(k))
                => cacheSize(m_cache') = 0]_vars

\* C34: put(key, node) returns true and stores the element, so that a
\* following get(key) yields it, when the key is cached, or the cache is
\* below its capacity, or at least one entry has expired; it returns false
\* only when the key is absent, the cache is full and nothing has expired,
\* and then leaves the cache as it was; it purges at most once.
C34_PutResult ==
    [][\A key \in Keys, element \in CacheElements, built \in 0..now :
          put(key, CacheNode(element, built)) =>
              LET accepts == \/ contains(m_cache, key)
                             \/ belowCapacity(m_cache)
                             \/ \E k \in Keys : Expired(k)
              IN  /\ accepts =>
                        /\ answer'.ret
                        /\ m_cache'[key].element = element
                  /\ ~answer'.ret =>
                        /\ ~accepts
                        /\ m_cache' = m_cache
                        /\ m_timeBuffer' = m_timeBuffer
                  /\ answer'.purges <= 1
                  /\ m_putGuard' = FALSE]_vars

====
